---- MODULE Spec2Model ----
(***************************************************************************)
(* Model of proxy/match.go of ghproxy: the URL classifier Matcher, the     *)
(* rewrite gate EditorMatcher, the link rewriter modifyURL and the         *)
(* streaming body transformer processLinks (a goroutine writing into an    *)
(* io.Pipe that the caller's consumer drains).                             *)
(*                                                                         *)
(* Go strings are TLA+ strings; TLC evaluates Len, SubSeq, Tail and \o on  *)
(* them, so every string function below works on the characters.          *)
(***************************************************************************)
EXTENDS Integers, Sequences, FiniteSets, TLC

VARIABLES
    m,      \* a call of Matcher: its arguments and what it produced
    rw,     \* a call of modifyURL, and a second call on what the first returned
    job,    \* the arguments of a call of processLinks: input, compress, host, cfg
    caller, \* the caller of processLinks: where it is, and what was returned to it
    shared, \* the named results err and written, captured by the goroutine
    task,   \* the goroutine of processLinks: its position and local variables
    bw,     \* bufWriter, the bufio.Writer
    gz,     \* gzipWriter, the gzip.Writer (unused when compress # "gzip")
    pipe,   \* the io.Pipe between pipeWriter and pipeReader
    cons,   \* the consumer of readerOut: the bytes read and the terminal error
    input   \* the input io.ReadCloser: how often it was closed

linkVars == <<job, caller, shared, task, bw, gz, pipe, cons, input>>

vars == <<m, rw, linkVars>>

----------------------------------------------------------------------------
(* Bounds of the model *)

\* most path segments appended to a prefix when rawPath is enumerated
MaxSegs == 3

\* most fragments an input body of processLinks is built from
MaxFrags == 2

\* the size of bufWriter's buffer (4096 in the code, scaled down)
BufSize == 6

\* the compressor hands a block to its writer once it holds this many bytes
ZBlock == 8

\* the largest buffer the consumer passes to Read
MaxRead == 4

----------------------------------------------------------------------------
(* strings package *)

\* strings.HasPrefix
HasPrefix(s, p) == Len(s) >= Len(p) /\ SubSeq(s, 1, Len(p)) = p

\* strings.TrimPrefix
TrimPrefix(s, p) == IF HasPrefix(s, p) THEN SubSeq(s, Len(p) + 1, Len(s)) ELSE s

\* strings.HasSuffix
HasSuffix(s, p) == Len(s) >= Len(p) /\ SubSeq(s, Len(s) - Len(p) + 1, Len(s)) = p

\* strings.IndexByte, 1-based; 0 when c does not occur in s
IndexByte(s, c) ==
    LET hits == {i \in 1..Len(s) : SubSeq(s, i, i) = c}
    IN  IF hits = {} THEN 0 ELSE CHOOSE i \in hits : \A j \in hits : i <= j

\* strings.Split(s, sep) for a one-character sep: never empty, Split("") = [""]
RECURSIVE Split(_, _)
Split(s, sep) ==
    LET i == IndexByte(s, sep)
    IN  IF i = 0 THEN <<s>>
        ELSE <<SubSeq(s, 1, i - 1)>> \o Split(SubSeq(s, i + 1, Len(s)), sep)

----------------------------------------------------------------------------
(* Matcher *)

\* what a call of Matcher produces: a return (status 0 is a nil error) or a
\* run-time panic (index out of range)
Ret(user, repo, matcher) ==
    [outcome |-> "return", user |-> user, repo |-> repo, matcher |-> matcher, status |-> 0]

\* ErrRet as it would be if the 403 return handed back the variables already
\* set (return user, repo, matcher, err) instead of three empty strings
ErrRetKeepsKind(status) ==
    [outcome |-> "return", user |-> "", repo |-> "",
     matcher |-> IF status = 403 THEN "api" ELSE "", status |-> status]

\* return "", "", "", NewErrorWithStatusLookup(status, errMsg)
ErrRet(status) ==
    [outcome |-> "return", user |-> "", repo |-> "", matcher |-> "", status |-> status]

Panic ==
    [outcome |-> "panic", user |-> "", repo |-> "", matcher |-> "", status |-> 0]

\* m.res before Matcher is called
NotCalled ==
    [outcome |-> "none", user |-> "", repo |-> "", matcher |-> "", status |-> 0]

\* GithubKind with the case "info", "git-upload-pack" mapped to the wrong kind
GithubKindCloneAsRaw(seg) ==
    CASE seg \in {"releases", "archive"} -> "releases"
      [] seg = "blob" -> "blob"
      [] seg \in {"raw", "info", "git-upload-pack"} -> "raw"
      [] OTHER -> ""

\* the switch on parts[2] of a https://github.com path; "" is the default case
GithubKind(seg) ==
    CASE seg \in {"releases", "archive"} -> "releases"
      [] seg = "blob" -> "blob"
      [] seg = "raw" -> "raw"
      [] seg \in {"info", "git-upload-pack"} -> "clone"
      [] OTHER -> ""

\* GithubTooShort off by one: `len(parts) < 2`
GithubTooShortBelowTwo(parts) == Len(parts) < 2

\* the guard `len(parts) <= 2` of the https://github.com branch
GithubTooShort(parts) == Len(parts) <= 2

\* the branch for rawPath with the prefix https://github.com
MatchGithub(rawPath) ==
    LET rem0  == TrimPrefix(rawPath, "https://github.com")
        rem   == IF HasPrefix(rem0, "/") THEN TrimPrefix(rem0, "/") ELSE rem0
        parts == Split(rem, "/")
    IN  IF GithubTooShort(parts) THEN ErrRet(400)
        ELSE IF Len(parts) >= 3
             THEN IF GithubKind(parts[3]) = "" THEN ErrRet(400)
                  ELSE Ret(parts[1], parts[2], GithubKind(parts[3]))
             ELSE Ret(parts[1], parts[2], "")

\* HostPathTooShort off by one: `len(parts) <= 2`
HostPathTooShortAtTwo(parts) == Len(parts) <= 2

\* the guard `len(parts) <= 3` of the https://raw and https://gist branches
HostPathTooShort(parts) == Len(parts) <= 3

\* the branch for rawPath with the prefix https://raw
MatchRaw(rawPath) ==
    LET parts == Split(TrimPrefix(rawPath, "https://"), "/")
    IN  IF HostPathTooShort(parts) THEN ErrRet(400)
        ELSE Ret(parts[2], parts[3], "raw")

\* the branch for rawPath with the prefix https://gist
MatchGist(rawPath) ==
    LET parts == Split(TrimPrefix(rawPath, "https://"), "/")
    IN  IF HostPathTooShort(parts) THEN ErrRet(400)
        ELSE Ret(parts[2], "", "gist")

\* ApiDenied without the ForceAllowApi override
ApiDeniedIgnoringForce(cfg) == cfg.Method # "header" \/ ~cfg.Enabled

\* the authorization gate of the api branch: TRUE when the call is refused
ApiDenied(cfg) ==
    /\ ~cfg.ForceAllowApi
    /\ (cfg.Method # "header" \/ ~cfg.Enabled)

\* the branch for rawPath with the prefix https://api.github.com/ ; parts[0]
\* of the code is parts[1] here, and an index past len(parts) panics
MatchApi(rawPath, cfg) ==
    LET parts == Split(TrimPrefix(rawPath, "https://api.github.com/"), "/")
        user  == IF parts[1] \in {"repos", "users"} THEN parts[2] ELSE ""
        repo  == IF parts[1] = "repos" THEN parts[3] ELSE ""
    IN  IF parts[1] = "repos" /\ Len(parts) < 3 THEN Panic
        ELSE IF parts[1] = "users" /\ Len(parts) < 2 THEN Panic
        ELSE IF ApiDenied(cfg) THEN ErrRet(403)
        ELSE Ret(user, repo, "api")

Matcher(rawPath, cfg) ==
    IF HasPrefix(rawPath, "https://github.com") THEN MatchGithub(rawPath)
    ELSE IF HasPrefix(rawPath, "https://raw") THEN MatchRaw(rawPath)
    ELSE IF HasPrefix(rawPath, "https://gist") THEN MatchGist(rawPath)
    ELSE IF HasPrefix(rawPath, "https://api.github.com/") THEN MatchApi(rawPath, cfg)
    ELSE ErrRet(404)

----------------------------------------------------------------------------
(* EditorMatcher and modifyURL *)

\* EditorMatcher testing the scheme only, not the host
EditorMatcherAnyHttps(rawPath, cfg) == HasPrefix(rawPath, "https://")

\* EditorMatcher with the test of cfg.Shell.RewriteAPI left out
EditorMatcherApiAlways(rawPath, cfg) ==
    \/ HasPrefix(rawPath, "https://github.com")
    \/ HasPrefix(rawPath, "https://raw.githubusercontent.com")
    \/ HasPrefix(rawPath, "https://raw.github.com")
    \/ HasPrefix(rawPath, "https://gist.githubusercontent.com")
    \/ HasPrefix(rawPath, "https://gist.github.com")
    \/ HasPrefix(rawPath, "https://api.github.com")

\* EditorMatcher: its bool result (its error result is always nil)
EditorMatcher(rawPath, cfg) ==
    \/ HasPrefix(rawPath, "https://github.com")
    \/ HasPrefix(rawPath, "https://raw.githubusercontent.com")
    \/ HasPrefix(rawPath, "https://raw.github.com")
    \/ HasPrefix(rawPath, "https://gist.githubusercontent.com")
    \/ HasPrefix(rawPath, "https://gist.github.com")
    \/ (cfg.RewriteAPI /\ HasPrefix(rawPath, "https://api.github.com"))

\* EditorMatcher: its error result, nil at each of its return statements
EditorMatcherErr(rawPath, cfg) == "nil"

\* modifyURL that prepends the proxy host and keeps the scheme of url
modifyURLKeepsScheme(url, host, cfg) ==
    IF EditorMatcher(url, cfg) THEN "https://" \o host \o "/" \o url ELSE url

modifyURL(url, host, cfg) ==
    IF EditorMatcher(url, cfg)
    THEN "https://" \o host \o "/" \o TrimPrefix(TrimPrefix(url, "https://"), "http://")
    ELSE url

\* rw before modifyURL is called: step counts the calls made
RwIdle ==
    [step |-> 0, url |-> "", host |-> "", cfg |-> [RewriteAPI |-> FALSE], matched |-> FALSE,
     err |-> "nil", out |-> "", again |-> ""]

----------------------------------------------------------------------------
(* urlPattern = `https?://[^\s'"]+` and ReplaceAllStringFunc *)

\* the characters [^\s'"] excludes: \s of RE2 is [\t\n\f\r ], then ' and "
UrlStop == {"\t", "\n", "\f", "\r", " ", "'", "\""}

\* the length of the scheme `https?://` at position i of s, 0 when absent
SchemeAt(s, i) ==
    IF i + 7 <= Len(s) /\ SubSeq(s, i, i + 7) = "https://" THEN 8
    ELSE IF i + 6 <= Len(s) /\ SubSeq(s, i, i + 6) = "http://" THEN 7
    ELSE 0

\* the number of characters of s from position i on that [^\s'"]+ takes (greedy)
RECURSIVE UrlRun(_, _)
UrlRun(s, i) ==
    IF i > Len(s) \/ SubSeq(s, i, i) \in UrlStop THEN 0 ELSE 1 + UrlRun(s, i + 1)

\* the length of the match of urlPattern that starts at position i, 0 when none
MatchAt(s, i) ==
    LET k == SchemeAt(s, i)
    IN  IF k = 0 THEN 0
        ELSE IF UrlRun(s, i + k) = 0 THEN 0 ELSE k + UrlRun(s, i + k)

\* urlPattern.ReplaceAllStringFunc(s, f) from position i on, f being modifyURL:
\* leftmost matches, not overlapping, everything between them copied
RECURSIVE ReplaceFrom(_, _, _, _)
ReplaceFrom(s, i, host, cfg) ==
    IF i > Len(s) THEN ""
    ELSE LET k == MatchAt(s, i)
         IN  IF k = 0 THEN SubSeq(s, i, i) \o ReplaceFrom(s, i + 1, host, cfg)
             ELSE modifyURL(SubSeq(s, i, i + k - 1), host, cfg)
                    \o ReplaceFrom(s, i + k, host, cfg)

\* modifiedLine of processLinks
ReplaceAllURLs(line, host, cfg) == ReplaceFrom(line, 1, host, cfg)

----------------------------------------------------------------------------
(* Error values *)

Nil == "nil"
EOF == "EOF"
\* io.ErrClosedPipe
ErrClosedPipe == "io: read/write on closed pipe"
\* fmt.Errorf("gzip解压错误: %v", gzipErr)
ErrGzip == "gzip: invalid header"
\* fmt.Errorf("读取行错误: %v", readErr)
ErrRead == "read line error"
\* fmt.Errorf("写入文件错误: %v", writeErr)
ErrWrite == "write error"
\* what compress/flate answers to a Write after Close
ErrWriterClosed == "flate: closed writer"

----------------------------------------------------------------------------
(* compress/gzip, as a framing: the header, the deflate blocks (the bytes
   themselves, the last block ended by GzFinal), then the trailer *)

GzHeader == "{"
GzFinal == "|"
GzTrailer == "}"

\* what gzip.Writer emits in all for the content s
Gzip(s) == GzHeader \o s \o GzFinal \o GzTrailer

\* gzip.NewReader: the header is read and validated at once
GzipHeaderOK(raw) == HasPrefix(raw, GzHeader)

\* the content gzip.Reader yields before it ends, header already taken
GunzipBody(raw) ==
    LET r == Tail(raw)
        i == IndexByte(r, GzFinal)
    IN  IF i = 0 THEN r ELSE SubSeq(r, 1, i - 1)

\* how the reads of gzip.Reader end: EOF after a complete stream on an input
\* that ends with EOF, an error otherwise (truncated stream, bad trailer,
\* read error of the input)
GunzipEnd(raw, inEnd) ==
    LET r == Tail(raw)
        i == IndexByte(r, GzFinal)
    IN  IF i # 0 /\ SubSeq(r, i + 1, Len(r)) = GzTrailer /\ inEnd = EOF THEN EOF ELSE "err"

----------------------------------------------------------------------------
(* processLinks: the state after construction *)

Min(a, b) == IF a <= b THEN a ELSE b

IsGzip == job.compress = "gzip"

\* caller.pc: "entry" (before the go statement), "spawned", "returned"
CallerInit == [pc |-> "entry", written |-> 0, err |-> Nil]

\* var err error; var written int64
SharedInit == [err |-> Nil, written |-> 0]

\* task.pc: idle, start, read, ws, final, pw, dz, dflush, dgzr, dinput, dpipe, done.
\*   rest, end   what bufReader still yields, and how its reads end
\*   line, nn    the rest of the string WriteString is writing, and its count
\*   op, after   the call whose Write is in progress, and who made that call
\*   wq          the chunks that Write still hands to pipeWriter
\*   inflight    pipeWriter.Write is blocked on the first chunk of wq
\*   werr        the error of the Write in progress
\*   recorded    history: the first error the task assigned to err
\*   log         history: the cleanup calls made so far, in their order, and
\*               "trailer" once the gzip trailer was read from the pipe
TaskInit ==
    [pc |-> "idle", rest |-> "", end |-> EOF, line |-> "", nn |-> 0, op |-> "", after |-> "",
     wq |-> <<>>, inflight |-> FALSE, werr |-> Nil, recorded |-> Nil, log |-> <<>>]

\* bufio.NewWriterSize(w, 4096): buf[:n] and the sticky error
BwInit == [buf |-> "", err |-> Nil]

\* gzip.NewWriter(pipeWriter): pend is what the compressor holds
GzInit == [wroteHeader |-> FALSE, pend |-> "", closed |-> FALSE, err |-> Nil]

\* io.Pipe(): data is the rest of the Write in progress, werr what the write
\* end was closed with (EOF for a plain Close), rclosed the read end closed
PipeInit == [data |-> "", werr |-> Nil, rclosed |-> FALSE]

\* the consumer: what it has read, how its reading ended, and stopped once it
\* has given up reading without closing readerOut
ConsInit == [out |-> "", term |-> Nil, stopped |-> FALSE]

\* input: the calls of input.Close(), whether that call failed, and whether
\* gzipReader.Close() failed
InputInit == [closes |-> 0, closeFailed |-> FALSE, gzrFailed |-> FALSE]

LinksIdle ==
    /\ job = [compress |-> "", host |-> "", cfg |-> [RewriteAPI |-> FALSE], raw |-> "",
              inEnd |-> EOF]
    /\ caller = CallerInit
    /\ shared = SharedInit
    /\ task = TaskInit
    /\ bw = BwInit
    /\ gz = GzInit
    /\ pipe = PipeInit
    /\ cons = ConsInit
    /\ input = InputInit

\* the pieces input bodies are built from
Frags ==
    {"https://github.com/a", "http://e.x", "https://api.github.com", "b", "b\n", "'", " ",
     "\n"}

RECURSIVE Concat(_)
Concat(ss) == IF Len(ss) = 0 THEN "" ELSE Head(ss) \o Concat(Tail(ss))

Bodies == {Concat(ss) : ss \in UNION {[1..n -> Frags] : n \in 0..MaxFrags}}

\* the bytes of input: any body when not compressed; in gzip mode a gzip
\* stream, a stream cut before its trailer, or bytes with no gzip header
Inputs(compress) ==
    IF compress = "gzip"
    THEN {Gzip(b) : b \in Bodies} \cup {GzHeader \o b : b \in Bodies} \cup Bodies
    ELSE Bodies

Init ==
    /\ rw = RwIdle
    /\ m = [rawPath |-> "", cfg |-> [Method |-> "", Enabled |-> FALSE,
            ForceAllowApi |-> FALSE], res |-> NotCalled]
    /\ \E compress \in {"gzip", ""}, rewriteAPI \in BOOLEAN, inEnd \in {EOF, "err"} :
         \E raw \in Inputs(compress) :
            job = [compress |-> compress, host |-> "px", cfg |-> [RewriteAPI |-> rewriteAPI],
                   raw |-> raw, inEnd |-> inEnd]
    /\ caller = CallerInit
    /\ shared = SharedInit
    /\ task = TaskInit
    /\ bw = BwInit
    /\ gz = GzInit
    /\ pipe = PipeInit
    /\ cons = ConsInit
    /\ input = InputInit

----------------------------------------------------------------------------
(* processLinks: the caller *)

\* pipeReader, pipeWriter := io.Pipe(); readerOut = pipeReader; go func() {...}()
Spawn ==
    /\ caller.pc = "entry"
    /\ caller' = [caller EXCEPT !.pc = "spawned"]
    /\ task' = [task EXCEPT !.pc = "start"]
    /\ UNCHANGED <<m, rw, job, shared, bw, gz, pipe, cons, input>>

\* return readerOut, written, nil: the statement assigns the named results,
\* so it reads written and stores nil into err while the goroutine, which
\* captured both, may be running; the caller gets the values of that moment
Return ==
    /\ caller.pc = "spawned"
    /\ caller' = [pc |-> "returned", written |-> shared.written, err |-> Nil]
    /\ shared' = [shared EXCEPT !.err = Nil]
    /\ UNCHANGED <<m, rw, job, task, bw, gz, pipe, cons, input>>

----------------------------------------------------------------------------
(* processLinks: the writers under bufWriter *)

\* gzip.Writer.Write(p): the chunks it hands to pipeWriter (the header before
\* the first data, then every full block of the compressor), its error when it
\* fails before any of them, and the writer afterwards
GzWrite(p) ==
    IF gz.err # Nil THEN [wq |-> <<>>, werr |-> gz.err, gz |-> gz]
    ELSE IF gz.closed
    THEN [wq |-> <<>>, werr |-> ErrWriterClosed, gz |-> [gz EXCEPT !.err = ErrWriterClosed]]
    ELSE LET all  == gz.pend \o p
             nblk == Len(all) \div ZBlock
             blks == [i \in 1..nblk |-> SubSeq(all, (i - 1) * ZBlock + 1, i * ZBlock)]
             hdr  == IF gz.wroteHeader THEN <<>> ELSE <<GzHeader>>
         IN  [wq |-> hdr \o blks, werr |-> Nil,
              gz |-> [gz EXCEPT !.wroteHeader = TRUE,
                                !.pend = SubSeq(all, nblk * ZBlock + 1, Len(all))]]

\* bufio.Writer.Flush() on the writer b: nothing to do when b failed before or
\* holds nothing, else one Write of the buffer to the writer below
FlushCall(b) ==
    IF b.err # Nil THEN [wq |-> <<>>, werr |-> b.err, gz |-> gz]
    ELSE IF b.buf = "" THEN [wq |-> <<>>, werr |-> Nil, gz |-> gz]
    ELSE IF IsGzip THEN GzWrite(b.buf)
    ELSE [wq |-> <<b.buf>>, werr |-> Nil, gz |-> gz]

\* the task t enters Flush of b, called from `after`
BeginFlush(t, b, after) ==
    LET r == FlushCall(b)
    IN  /\ task' = [t EXCEPT !.pc = "pw", !.op = "flush", !.after = after, !.wq = r.wq,
                             !.werr = r.werr, !.inflight = FALSE]
        /\ gz' = r.gz

\* gzip.Writer.Close(): the header if no Write wrote it, the last block of the
\* compressor, the trailer
GzClose ==
    IF gz.err # Nil THEN [wq |-> <<>>, werr |-> gz.err, gz |-> gz]
    ELSE IF gz.closed THEN [wq |-> <<>>, werr |-> Nil, gz |-> gz]
    ELSE [wq |-> (IF gz.wroteHeader THEN <<>> ELSE <<GzHeader>>)
                   \o <<gz.pend \o GzFinal, GzTrailer>>,
          werr |-> Nil,
          gz |-> [gz EXCEPT !.wroteHeader = TRUE, !.pend = "", !.closed = TRUE]]

\* err = e
Assign(e) == [shared EXCEPT !.err = e]

\* if err == nil { err = e }
AssignIfNil(e) == IF shared.err = Nil THEN Assign(e) ELSE shared

\* history of the assignments to err made by the task
Recorded(t, e) == [t EXCEPT !.recorded = IF t.recorded = Nil THEN e ELSE t.recorded]

\* a task body whose return skips the writers' close and flush
DeferEntrySkipsWriters == "dinput"

\* the first deferred call of the task body: the writers' close and flush
DeferEntry == IF IsGzip THEN "dz" ELSE "dflush"

----------------------------------------------------------------------------
(* processLinks: the goroutine *)

\* lines 245-269: gzip.NewReader(input) when compress == "gzip", the
\* bufio.Reader, the writers
TaskStart ==
    /\ task.pc = "start"
    /\ IF IsGzip /\ ~GzipHeaderOK(job.raw)
       THEN /\ shared' = Assign(ErrGzip)
            /\ task' = Recorded([task EXCEPT !.pc = "dinput"], ErrGzip)
       ELSE /\ task' = [task EXCEPT !.pc = "read",
                          !.rest = IF IsGzip THEN GunzipBody(job.raw) ELSE job.raw,
                          !.end = IF IsGzip THEN GunzipEnd(job.raw, job.inEnd)
                                  ELSE job.inEnd]
            /\ UNCHANGED shared
    /\ UNCHANGED <<m, rw, job, caller, bw, gz, pipe, cons, input>>

\* lines 295-308: bufReader.ReadString('\n'), which gives the line with its
\* newline, or what is left together with the error that ended the input; on
\* an error the loop is left and what ReadString returned is not used
ReadLine ==
    /\ task.pc = "read"
    /\ LET i == IndexByte(task.rest, "\n")
       IN  IF i # 0
           THEN /\ task' = [task EXCEPT !.pc = "ws", !.nn = 0,
                              !.line = ReplaceAllURLs(SubSeq(task.rest, 1, i), job.host,
                                                      job.cfg),
                              !.rest = SubSeq(task.rest, i + 1, Len(task.rest))]
                /\ UNCHANGED shared
           ELSE IF task.end = EOF
           THEN /\ task' = [task EXCEPT !.pc = "final", !.rest = ""]
                /\ UNCHANGED shared
           ELSE /\ shared' = Assign(ErrRead)
                /\ task' = Recorded([task EXCEPT !.pc = DeferEntry, !.rest = ""], ErrRead)
    /\ UNCHANGED <<m, rw, job, caller, bw, gz, pipe, cons, input>>

\* lines 310-315: bufWriter.WriteString(modifiedLine), one turn of its loop:
\* while the rest of the string does not fit, fill the buffer and Flush; then
\* copy the rest, add the count to written and go on with the next line
WriteString ==
    /\ task.pc = "ws"
    /\ LET avail == BufSize - Len(bw.buf)
       IN  IF Len(task.line) > avail /\ bw.err = Nil
           THEN LET b == [bw EXCEPT !.buf = bw.buf \o SubSeq(task.line, 1, avail)]
                    t == [task EXCEPT !.line = SubSeq(task.line, avail + 1, Len(task.line)),
                                      !.nn = task.nn + avail]
                IN  /\ bw' = b
                    /\ BeginFlush(t, b, "ws")
                    /\ UNCHANGED shared
           ELSE IF bw.err # Nil
           THEN /\ shared' = [shared EXCEPT !.written = shared.written + task.nn,
                                            !.err = ErrWrite]
                /\ task' = Recorded([task EXCEPT !.pc = DeferEntry], ErrWrite)
                /\ UNCHANGED <<bw, gz>>
           ELSE /\ bw' = [bw EXCEPT !.buf = bw.buf \o task.line]
                /\ shared' = [shared EXCEPT
                                !.written = shared.written + task.nn + Len(task.line)]
                /\ task' = [task EXCEPT !.pc = "read", !.line = "", !.nn = 0]
                /\ UNCHANGED gz
    /\ UNCHANGED <<m, rw, job, caller, pipe, cons, input>>

\* line 319: bufWriter.Flush() after the loop
FinalFlush ==
    /\ task.pc = "final"
    /\ BeginFlush(task, bw, "final")
    /\ UNCHANGED <<m, rw, job, caller, shared, bw, pipe, cons, input>>

\* pipeWriter.Write(chunk) begins: it fails at once when the read end is
\* closed, else it offers the chunk and blocks
PipeWrite ==
    /\ task.pc = "pw" /\ ~task.inflight /\ task.werr = Nil /\ task.wq # <<>>
    /\ IF pipe.rclosed
       THEN /\ task' = [task EXCEPT !.werr = ErrClosedPipe]
            /\ UNCHANGED pipe
       ELSE /\ pipe' = [pipe EXCEPT !.data = Head(task.wq)]
            /\ task' = [task EXCEPT !.inflight = TRUE]
    /\ UNCHANGED <<m, rw, job, caller, shared, bw, gz, cons, input>>

\* a Write on a pipe that buffers: it returns with its bytes not yet read
PipeWriteReturnUnread ==
    /\ task.pc = "pw" /\ task.inflight
    /\ task' = [task EXCEPT !.inflight = FALSE, !.wq = Tail(task.wq)]
    /\ pipe' = [pipe EXCEPT !.data = ""]
    /\ UNCHANGED <<m, rw, job, caller, shared, bw, gz, cons, input>>

\* pipeWriter.Write returns: every byte was read, or the read end was closed
\* with bytes left, which stay at the head of wq
PipeWriteReturn ==
    /\ task.pc = "pw" /\ task.inflight
    /\ pipe.data = "" \/ pipe.rclosed
    /\ IF pipe.data = ""
       THEN task' = [task EXCEPT !.inflight = FALSE, !.wq = Tail(task.wq),
                                 !.log = IF task.op = "gzclose" /\ Head(task.wq) = GzTrailer
                                         THEN Append(task.log, "trailer") ELSE task.log]
       ELSE task' = [task EXCEPT !.inflight = FALSE, !.werr = ErrClosedPipe,
                                 !.wq = <<pipe.data>> \o Tail(task.wq)]
    /\ pipe' = [pipe EXCEPT !.data = ""]
    /\ UNCHANGED <<m, rw, job, caller, shared, bw, gz, cons, input>>

\* the Flush or Close in progress returns to the code that called it:
\*   Flush from WriteString (its error shows in the next turn of the loop),
\*   Flush of line 319 (lines 319-324),
\*   gzipWriter.Close() of the deferred function (lines 275-283),
\*   Flush of the deferred function (lines 284-290)
WriteDone ==
    /\ task.pc = "pw" /\ ~task.inflight
    /\ task.wq = <<>> \/ task.werr # Nil
    /\ LET e == task.werr
           t == [task EXCEPT !.wq = <<>>, !.werr = Nil, !.op = "", !.after = ""]
       IN  /\ gz' = IF IsGzip /\ e # Nil /\ gz.err = Nil THEN [gz EXCEPT !.err = e] ELSE gz
           /\ IF task.op = "flush"
              THEN bw' = IF e = Nil THEN [bw EXCEPT !.buf = ""]
                         ELSE [bw EXCEPT !.err = e,
                                 !.buf = IF ~IsGzip /\ task.wq # <<>> THEN Head(task.wq)
                                         ELSE bw.buf]
              ELSE UNCHANGED bw
           /\ CASE task.op = "flush" /\ task.after = "ws" ->
                     /\ task' = [t EXCEPT !.pc = "ws"]
                     /\ UNCHANGED shared
                [] task.op = "flush" /\ task.after = "final" ->
                     /\ shared' = IF e # Nil THEN AssignIfNil(e) ELSE shared
                     /\ task' = IF e # Nil /\ shared.err = Nil
                                THEN Recorded([t EXCEPT !.pc = DeferEntry], e)
                                ELSE [t EXCEPT !.pc = DeferEntry]
                [] task.op = "gzclose" ->
                     /\ shared' = IF e # Nil THEN AssignIfNil(e) ELSE shared
                     /\ task' = IF e # Nil /\ shared.err = Nil
                                THEN Recorded([t EXCEPT !.pc = "dflush"], e)
                                ELSE [t EXCEPT !.pc = "dflush"]
                [] task.op = "flush" /\ task.after = "defer" ->
                     /\ shared' = IF e # Nil THEN AssignIfNil(e) ELSE shared
                     /\ task' = IF e # Nil /\ shared.err = Nil
                                THEN Recorded([t EXCEPT !.pc = IF IsGzip THEN "dgzr"
                                                                ELSE "dinput"], e)
                                ELSE [t EXCEPT !.pc = IF IsGzip THEN "dgzr" ELSE "dinput"]
    /\ UNCHANGED <<m, rw, job, caller, pipe, cons, input>>

\* lines 275-283 of the deferred function: gzipWriter.Close()
DeferGzipClose ==
    /\ task.pc = "dz"
    /\ LET r == GzClose
       IN  /\ task' = [task EXCEPT !.pc = "pw", !.op = "gzclose", !.after = "defer",
                                   !.wq = r.wq, !.werr = r.werr, !.inflight = FALSE,
                                   !.log = Append(task.log, "gzclose")]
           /\ gz' = r.gz
    /\ UNCHANGED <<m, rw, job, caller, shared, bw, pipe, cons, input>>

\* lines 284-290 of the deferred function: bufWriter.Flush()
DeferFlush ==
    /\ task.pc = "dflush"
    /\ BeginFlush([task EXCEPT !.log = Append(task.log, "flush")], bw, "defer")
    /\ UNCHANGED <<m, rw, job, caller, shared, bw, pipe, cons, input>>

\* line 254: defer gzipReader.Close(), which may fail; its result is dropped
DeferGzipReaderClose ==
    /\ task.pc = "dgzr"
    /\ \E failed \in BOOLEAN : input' = [input EXCEPT !.gzrFailed = failed]
    /\ task' = [task EXCEPT !.pc = "dinput", !.log = Append(task.log, "gzrclose")]
    /\ UNCHANGED <<m, rw, job, caller, shared, bw, gz, pipe, cons>>

\* lines 238-243: input.Close(), which may fail; the failure goes to a
\* variable err of the deferred function and is only logged
DeferInputClose ==
    /\ task.pc = "dinput"
    /\ \E failed \in BOOLEAN :
         input' = [input EXCEPT !.closes = input.closes + 1, !.closeFailed = failed]
    /\ task' = [task EXCEPT !.pc = "dpipe", !.log = Append(task.log, "inclose")]
    /\ UNCHANGED <<m, rw, job, caller, shared, bw, gz, pipe, cons>>

\* a task that ends without closing pipeWriter
DeferPipeCloseForgets ==
    /\ task.pc = "dpipe"
    /\ task' = [task EXCEPT !.pc = "done", !.log = Append(task.log, "pipeclose")]
    /\ UNCHANGED <<m, rw, job, caller, shared, bw, gz, pipe, cons, input>>

\* lines 221-236: pipeWriter.CloseWithError(err) when err is set, else
\* pipeWriter.Close(); neither fails, and the first close decides what the
\* reader gets
DeferPipeClose ==
    /\ task.pc = "dpipe"
    /\ pipe' = [pipe EXCEPT !.werr = IF pipe.werr # Nil THEN pipe.werr
                                     ELSE IF shared.err # Nil THEN shared.err ELSE EOF]
    /\ task' = [task EXCEPT !.pc = "done", !.log = Append(task.log, "pipeclose")]
    /\ UNCHANGED <<m, rw, job, caller, shared, bw, gz, cons, input>>

----------------------------------------------------------------------------
(* The consumer of readerOut, which it holds once processLinks has returned *)

\* Read(p) with 1 <= len(p) <= MaxRead while a Write is blocked: the bytes
\* that fit are taken
ConsumerRead ==
    /\ caller.pc = "returned" /\ cons.term = Nil /\ ~pipe.rclosed /\ ~cons.stopped
    /\ pipe.data # ""
    /\ \E k \in 1..MaxRead :
         LET n == Min(k, Len(pipe.data))
         IN  /\ k <= Len(pipe.data) \/ k = MaxRead
             /\ cons' = [cons EXCEPT !.out = cons.out \o SubSeq(pipe.data, 1, n)]
             /\ pipe' = [pipe EXCEPT !.data = SubSeq(pipe.data, n + 1, Len(pipe.data))]
    /\ UNCHANGED <<m, rw, job, caller, shared, task, bw, gz, input>>

\* Read after the write end was closed: io.EOF, or the error it was closed with
ConsumerReadEnd ==
    /\ caller.pc = "returned" /\ cons.term = Nil /\ ~pipe.rclosed /\ ~cons.stopped
    /\ pipe.data = "" /\ pipe.werr # Nil
    /\ cons' = [cons EXCEPT !.term = pipe.werr]
    /\ UNCHANGED <<m, rw, job, caller, shared, task, bw, gz, pipe, input>>

\* the consumer gives up and closes the read end (readerOut is an
\* *io.PipeReader): a blocked or later Write fails with io.ErrClosedPipe
ConsumerClose ==
    /\ caller.pc = "returned" /\ cons.term = Nil /\ ~pipe.rclosed /\ ~cons.stopped
    /\ pipe' = [pipe EXCEPT !.rclosed = TRUE]
    /\ UNCHANGED <<m, rw, job, caller, shared, task, bw, gz, cons, input>>

\* the consumer stops reading for good and does not close readerOut
ConsumerStop ==
    /\ caller.pc = "returned" /\ cons.term = Nil /\ ~pipe.rclosed /\ ~cons.stopped
    /\ cons' = [cons EXCEPT !.stopped = TRUE]
    /\ UNCHANGED <<m, rw, job, caller, shared, task, bw, gz, pipe, input>>

Next ==
    \/ Spawn
    \/ Return
    \/ TaskStart
    \/ ReadLine
    \/ WriteString
    \/ FinalFlush
    \/ PipeWrite
    \/ PipeWriteReturn
    \/ WriteDone
    \/ DeferGzipClose
    \/ DeferFlush
    \/ DeferGzipReaderClose
    \/ DeferInputClose
    \/ DeferPipeClose
    \/ ConsumerRead
    \/ ConsumerReadEnd
    \/ ConsumerClose
    \/ ConsumerStop

Spec == Init /\ [][Next]_vars

\* processLinks with a consumer that reads until Read returns an error: it
\* neither closes readerOut nor stops
NextDrain ==
    \/ Spawn
    \/ Return
    \/ TaskStart
    \/ ReadLine
    \/ WriteString
    \/ FinalFlush
    \/ PipeWrite
    \/ PipeWriteReturn
    \/ WriteDone
    \/ DeferGzipClose
    \/ DeferFlush
    \/ DeferGzipReaderClose
    \/ DeferInputClose
    \/ DeferPipeClose
    \/ ConsumerRead
    \/ ConsumerReadEnd

\* the steps of the caller, of the goroutine and of the consumer
CallerStep == Spawn \/ Return

TaskStep ==
    \/ TaskStart \/ ReadLine \/ WriteString \/ FinalFlush \/ PipeWrite \/ PipeWriteReturn
    \/ WriteDone \/ DeferGzipClose \/ DeferFlush \/ DeferGzipReaderClose
    \/ DeferInputClose \/ DeferPipeClose

ConsumerStep == ConsumerRead \/ ConsumerReadEnd

\* the input bodies of the runs checked for termination: lines with and
\* without a URL, a line longer than the buffer, a last line without newline
DrainFrags == {"https://github.com/a", "b\n", "b", "\n"}

DrainBodies == {Concat(ss) : ss \in UNION {[1..n -> DrainFrags] : n \in 0..MaxFrags}}

DrainInputs(compress) ==
    IF compress = "gzip"
    THEN {Gzip(b) : b \in DrainBodies} \cup {GzHeader \o b : b \in DrainBodies}
           \cup DrainBodies
    ELSE DrainBodies

InitDrain ==
    /\ rw = RwIdle
    /\ m = [rawPath |-> "", cfg |-> [Method |-> "", Enabled |-> FALSE,
            ForceAllowApi |-> FALSE], res |-> NotCalled]
    /\ \E compress \in {"gzip", ""}, inEnd \in {EOF, "err"} :
         \E raw \in DrainInputs(compress) :
            job = [compress |-> compress, host |-> "px", cfg |-> [RewriteAPI |-> FALSE],
                   raw |-> raw, inEnd |-> inEnd]
    /\ caller = CallerInit
    /\ shared = SharedInit
    /\ task = TaskInit
    /\ bw = BwInit
    /\ gz = GzInit
    /\ pipe = PipeInit
    /\ cons = ConsInit
    /\ input = InputInit

\* the Go scheduler runs every goroutine that can run
SpecDrain ==
    /\ InitDrain /\ [][NextDrain]_vars
    /\ WF_vars(CallerStep) /\ WF_vars(TaskStep) /\ WF_vars(ConsumerStep)

----------------------------------------------------------------------------
(* The inputs Matcher is called with *)

\* the start of rawPath: every prefix the code tests, and near misses
Prefixes ==
    {"https://github.com", "https://raw", "https://gist",
     "https://api.github.com", "https://api.github.com/",
     "https://unknown.example.com", "http://github.com", ""}

\* the segments tried at each position of the path that follows the prefix
SegAt(i) ==
    CASE i = 1 -> {"", "o", "repos", "users", "blob"}
      [] i = 2 -> {"", "o", "r"}
      [] i = 3 -> {"", "r", "x", "releases", "archive", "blob", "raw", "info",
                   "git-upload-pack"}
      [] OTHER -> {"", "f"}

SegLists ==
    UNION {{s \in [1..n -> UNION {SegAt(i) : i \in 1..MaxSegs}] :
               \A i \in 1..n : s[i] \in SegAt(i)} : n \in 0..MaxSegs}

\* strings.Join(segs, "/")
RECURSIVE Join(_)
Join(segs) ==
    IF Len(segs) = 0 THEN ""
    ELSE IF Len(segs) = 1 THEN segs[1]
    ELSE segs[1] \o "/" \o Join(Tail(segs))

RawPaths ==
    {p \o lead \o Join(segs) : p \in Prefixes, lead \in {"", "/"}, segs \in SegLists}

\* cfg.Auth of config.Config, as far as Matcher reads it
AuthCfgs ==
    [Method : {"header", "parameters"}, Enabled : BOOLEAN, ForceAllowApi : BOOLEAN]

----------------------------------------------------------------------------
(* The classifier as a state machine: a call with its arguments, then its
   return or panic *)

InitMatcher ==
    /\ \E rawPath \in RawPaths, cfg \in AuthCfgs :
         m = [rawPath |-> rawPath, cfg |-> cfg, res |-> NotCalled]
    /\ rw = RwIdle
    /\ LinksIdle

CallMatcher ==
    /\ m.res.outcome = "none"
    /\ m' = [m EXCEPT !.res = Matcher(m.rawPath, m.cfg)]
    /\ UNCHANGED <<rw, linkVars>>

NextMatcher == CallMatcher

SpecMatcher == InitMatcher /\ [][NextMatcher]_vars

----------------------------------------------------------------------------
(* The link rewriter as a state machine: modifyURL(url, host, cfg), then
   modifyURL on its result with the same host *)

\* the starts of the URLs tried: every prefix EditorMatcher tests, and near
\* misses (other scheme, other host, a URL already pointing at a proxy host)
UrlHeads ==
    {"https://github.com", "https://raw.githubusercontent.com", "https://raw.github.com",
     "https://gist.githubusercontent.com", "https://gist.github.com",
     "https://api.github.com", "http://github.com", "http://api.github.com",
     "https://github.co", "https://raw.example.com", "https://gist.example.com",
     "https://http://github.com", "https://px/github.com", "https://px/api.github.com",
     "HTTPS://github.com", "github.com", ""}

Urls ==
    {h \o lead \o Join(segs) : h \in UrlHeads, lead \in {"", "/"}, segs \in SegLists}

\* the proxy hosts tried, among them hosts that begin like an upstream host
Hosts == {"px", "proxy.example", "", "github.com", "github.com.px", "raw.github.com",
          "api.github.com"}

InitRewrite ==
    /\ \E url \in Urls, host \in Hosts, rewriteAPI \in BOOLEAN :
         rw = [RwIdle EXCEPT !.url = url, !.host = host, !.cfg = [RewriteAPI |-> rewriteAPI]]
    /\ m = [rawPath |-> "", cfg |-> [Method |-> "", Enabled |-> FALSE,
            ForceAllowApi |-> FALSE], res |-> NotCalled]
    /\ LinksIdle

\* modifyURL(url, host, cfg), with what its call of EditorMatcher returned
CallModifyURL ==
    /\ rw.step = 0
    /\ rw' = [rw EXCEPT !.step = 1,
                        !.matched = EditorMatcher(rw.url, rw.cfg),
                        !.err = EditorMatcherErr(rw.url, rw.cfg),
                        !.out = modifyURL(rw.url, rw.host, rw.cfg)]
    /\ UNCHANGED <<m, linkVars>>

\* modifyURL(out, host, cfg): the rewritten URL is rewritten once more
CallModifyURLAgain ==
    /\ rw.step = 1
    /\ rw' = [rw EXCEPT !.step = 2, !.again = modifyURL(rw.out, rw.host, rw.cfg)]
    /\ UNCHANGED <<m, linkVars>>

NextRewrite == CallModifyURL \/ CallModifyURLAgain

SpecRewrite == InitRewrite /\ [][NextRewrite]_vars

----------------------------------------------------------------------------
(* Claims about EditorMatcher and modifyURL, checked under SpecRewrite *)

\* the prefixes the claims list for EditorMatcher, whatever the configuration
GatePrefixes ==
    {"https://github.com", "https://raw.githubusercontent.com", "https://raw.github.com",
     "https://gist.githubusercontent.com", "https://gist.github.com"}

StartsWithOneOf(u, prefixes) ==
    \E p \in prefixes : Len(u) >= Len(p) /\ SubSeq(u, 1, Len(p)) = p

\* C11: EditorMatcher returns true, with a nil error, exactly when url starts
\* with https://github.com, https://raw.githubusercontent.com,
\* https://raw.github.com, https://gist.githubusercontent.com or
\* https://gist.github.com, or starts with https://api.github.com while
\* Shell.RewriteAPI is set; otherwise false; its error is never non-nil.
C11_GateExactlyThePrefixes ==
    rw.step >= 1 =>
        /\ rw.matched <=> \/ StartsWithOneOf(rw.url, GatePrefixes)
                          \/ (rw.cfg.RewriteAPI
                                /\ StartsWithOneOf(rw.url, {"https://api.github.com"}))
        /\ rw.err = "nil"

C11_Witness ==
    /\ rw.step = 1 /\ rw.url = "https://api.github.com/repos/o/r"
    /\ rw.cfg.RewriteAPI /\ rw.matched

\* url with one leading https:// or http:// removed, if it has one
StripOneScheme(u) ==
    IF Len(u) >= 8 /\ SubSeq(u, 1, 8) = "https://" THEN SubSeq(u, 9, Len(u))
    ELSE IF Len(u) >= 7 /\ SubSeq(u, 1, 7) = "http://" THEN SubSeq(u, 8, Len(u))
    ELSE u

\* C12: modifyURL returns url unchanged when EditorMatcher(url) is false, and
\* otherwise "https://" + host + "/" + url with exactly one leading scheme
\* (https:// or http://) removed.
C12_RewriteForm ==
    rw.step >= 1 =>
        /\ ~rw.matched => rw.out = rw.url
        /\ rw.matched => rw.out = "https://" \o rw.host \o "/" \o StripOneScheme(rw.url)

C12_Witness ==
    /\ rw.step = 1 /\ rw.url = "https://github.com/o/r" /\ rw.host = "proxy.example"
    /\ rw.out = "https://proxy.example/github.com/o/r"

\* C13 as stated: for every url and every proxy host h,
\* modifyURL(modifyURL(url, h), h) = modifyURL(url, h).
C13_IdempotentForEveryHost == rw.step = 2 => rw.again = rw.out

\* the hosts of the prefixes EditorMatcher accepts under cfg
GateHosts(cfg) ==
    {"github.com", "raw.githubusercontent.com", "raw.github.com",
     "gist.githubusercontent.com", "gist.github.com"}
      \cup (IF cfg.RewriteAPI THEN {"api.github.com"} ELSE {})

\* C13, amended: for every url and every proxy host h that does not begin
\* with a host EditorMatcher accepts, modifyURL(modifyURL(url, h), h) =
\* modifyURL(url, h): EditorMatcher does not match the rewritten URL.
C13_IdempotentForOtherHosts ==
    (rw.step = 2 /\ ~StartsWithOneOf(rw.host, GateHosts(rw.cfg))) => rw.again = rw.out

C13_Witness ==
    /\ rw.step = 2 /\ rw.url = "https://github.com/o/r" /\ rw.host = "px"
    /\ rw.out = "https://px/github.com/o/r" /\ rw.again = rw.out

----------------------------------------------------------------------------
(* Claims about processLinks, checked under Spec *)

\* what the claims call the transform of a body: line after line, each with
\* its terminator if it has one, every URL token replaced by modifyURL
RECURSIVE RewriteLines(_, _, _)
RewriteLines(s, host, cfg) ==
    IF s = "" THEN ""
    ELSE LET i == IndexByte(s, "\n")
             n == IF i = 0 THEN Len(s) ELSE i
         IN  ReplaceAllURLs(SubSeq(s, 1, n), host, cfg)
               \o RewriteLines(SubSeq(s, n + 1, Len(s)), host, cfg)

\* C1: when compress # "gzip", the input is read to its end without a read
\* error and the consumer drains the reader, the consumer has read exactly the
\* input's lines in order, URL tokens replaced by modifyURL and every other
\* byte unchanged, a last line without a newline included.
C1_EveryLineDelivered ==
    (~IsGzip /\ job.inEnd = EOF /\ cons.term = EOF) =>
        cons.out = RewriteLines(job.raw, job.host, job.cfg)

\* C2: whenever the task has recorded an error, the write end of the pipe is
\* closed with the first error recorded, under every interleaving with the
\* caller's return, and the consumer's terminal read yields that error, never
\* a clean end of stream.
C2_FirstErrorReachesConsumer ==
    task.recorded # Nil =>
        /\ task.pc = "done" => pipe.werr = task.recorded
        /\ cons.term # Nil => cons.term = task.recorded

\* C3: with compress == "gzip" and an input that fails the gzip header
\* validation, a consumer that drains the reader reads zero bytes and then the
\* decompression error, never a clean end of stream, under every scheduling.
C3_BadHeaderIsReported ==
    (IsGzip /\ ~GzipHeaderOK(job.raw) /\ cons.term # Nil) =>
        (cons.out = "" /\ cons.term = ErrGzip)

\* C4: for a successful transform with compress # "gzip", the count `written`
\* that processLinks returned equals the number of bytes the consumer read
\* when it drained the reader.
C4_WrittenIsOutputLength ==
    (~IsGzip /\ cons.term = EOF) => caller.written = Len(cons.out)

----------------------------------------------------------------------------
(* Claims about Matcher, checked under SpecMatcher *)

Returned == m.res.outcome = "return"

\* the path segments a claim speaks of: what follows `prefix` in rawPath
SegsAfter(prefix) == Split(SubSeq(m.rawPath, Len(prefix) + 1, Len(m.rawPath)), "/")

\* C5: for every rawPath and auth configuration Matcher returns normally, with
\* a result or a typed error; it never panics on an out-of-range segment
\* access, also for api paths repos/ and users/ with too few segments.
C5_MatcherNeverPanics == m.res.outcome # "panic"

\* C6: for a rawPath beginning with https://api.github.com/ that has the
\* segments its rule reads, Matcher returns status 403 exactly when
\* ForceAllowApi is false and (Method # "header" or Enabled is false);
\* otherwise kind api and no error, with owner = segment[1] and
\* repo = segment[2] for repos, owner = segment[1] and empty repo for users.
C6_ApiGate ==
    (m.res.outcome # "none" /\ HasPrefix(m.rawPath, "https://api.github.com/")) =>
        LET segs   == SegsAfter("https://api.github.com/")
            enough == /\ segs[1] = "repos" => Len(segs) >= 3
                      /\ segs[1] = "users" => Len(segs) >= 2
            denied == ~m.cfg.ForceAllowApi /\ ~(m.cfg.Method = "header" /\ m.cfg.Enabled)
        IN  enough =>
              /\ Returned
              /\ (m.res.status = 403) <=> denied
              /\ denied => (m.res.user = "" /\ m.res.repo = "" /\ m.res.matcher = "")
              /\ ~denied =>
                   /\ m.res.status = 0
                   /\ m.res.matcher = "api"
                   /\ segs[1] = "repos" => (m.res.user = segs[2] /\ m.res.repo = segs[3])
                   /\ segs[1] = "users" => (m.res.user = segs[2] /\ m.res.repo = "")

C6_Witness ==
    /\ m.rawPath = "https://api.github.com/repos/o/r"
    /\ m.cfg.ForceAllowApi /\ m.cfg.Method # "header" /\ ~m.cfg.Enabled
    /\ m.res = [outcome |-> "return", user |-> "o", repo |-> "r", matcher |-> "api",
                status |-> 0]

\* C7: for rawPath = https://github.com/<owner>/<repo>/<seg>[/...] and every
\* auth configuration, Matcher returns (owner, repo, kind) without error when
\* seg is releases or archive (kind releases), blob (blob), raw (raw), info or
\* git-upload-pack (clone); any other third segment gives status 400.
C7_GithubKinds ==
    (m.res.outcome # "none" /\ HasPrefix(m.rawPath, "https://github.com/")) =>
        LET segs == SegsAfter("https://github.com/")
            kind == CASE segs[3] = "releases" -> "releases"
                      [] segs[3] = "archive" -> "releases"
                      [] segs[3] = "blob" -> "blob"
                      [] segs[3] = "raw" -> "raw"
                      [] segs[3] = "info" -> "clone"
                      [] segs[3] = "git-upload-pack" -> "clone"
                      [] OTHER -> "none"
        IN  Len(segs) >= 3 =>
              /\ Returned
              /\ kind # "none" =>
                   /\ m.res.status = 0
                   /\ m.res.user = segs[1] /\ m.res.repo = segs[2]
                   /\ m.res.matcher = kind
              /\ kind = "none" => m.res.status = 400

C7_Witness ==
    /\ m.rawPath = "https://github.com/o/r/git-upload-pack"
    /\ m.res = [outcome |-> "return", user |-> "o", repo |-> "r", matcher |-> "clone",
                status |-> 0]

\* C8: for a rawPath beginning with https://github.com whose remainder, after
\* the prefix and one leading slash are removed, splits on "/" into fewer than
\* 3 segments, Matcher returns status 400 with empty owner, repo and kind.
C8_GithubTooFewSegments ==
    (m.res.outcome # "none" /\ HasPrefix(m.rawPath, "https://github.com")) =>
        LET rest == SubSeq(m.rawPath, Len("https://github.com") + 1, Len(m.rawPath))
            segs == Split(IF Len(rest) > 0 /\ SubSeq(rest, 1, 1) = "/"
                          THEN Tail(rest) ELSE rest, "/")
        IN  Len(segs) < 3 =>
              m.res = [outcome |-> "return", user |-> "", repo |-> "", matcher |-> "",
                       status |-> 400]

C8_Witness ==
    /\ m.rawPath = "https://github.com/o/r"
    /\ Returned /\ m.res.status = 400

\* C9: every return of Matcher carries either a result or an error: without
\* error the kind is one of releases, blob, raw, clone, gist, api; with an
\* error owner, repo and kind are empty and the status is 400, 403 or 404,
\* and 404 is returned exactly when rawPath begins with none of
\* https://github.com, https://raw, https://gist, https://api.github.com/.
C9_ResultXorError ==
    Returned =>
        LET known == \/ HasPrefix(m.rawPath, "https://github.com")
                     \/ HasPrefix(m.rawPath, "https://raw")
                     \/ HasPrefix(m.rawPath, "https://gist")
                     \/ HasPrefix(m.rawPath, "https://api.github.com/")
        IN  /\ m.res.status = 0 =>
                 m.res.matcher \in {"releases", "blob", "raw", "clone", "gist", "api"}
            /\ m.res.status # 0 =>
                 /\ m.res.user = "" /\ m.res.repo = "" /\ m.res.matcher = ""
                 /\ m.res.status \in {400, 403, 404}
            /\ (m.res.status = 404) <=> ~known

C9_Witness ==
    /\ m.rawPath = "https://api.github.com/users/o"
    /\ ~m.cfg.ForceAllowApi /\ m.cfg.Method = "header" /\ ~m.cfg.Enabled
    /\ m.res = [outcome |-> "return", user |-> "", repo |-> "", matcher |-> "",
                status |-> 403]

\* C10: for a rawPath beginning with https://raw or https://gist, Matcher
\* splits what follows https:// on "/": fewer than 4 segments give status 400;
\* 4 or more give no error and owner = segment[1], with repo = segment[2] and
\* kind raw for https://raw, empty repo and kind gist for https://gist,
\* whatever the auth configuration.
C10_RawAndGist ==
    (m.res.outcome # "none" /\ ~HasPrefix(m.rawPath, "https://github.com")
       /\ (HasPrefix(m.rawPath, "https://raw") \/ HasPrefix(m.rawPath, "https://gist"))) =>
        LET segs == SegsAfter("https://")
            raw  == HasPrefix(m.rawPath, "https://raw")
        IN  /\ Returned
            /\ Len(segs) < 4 => m.res.status = 400
            /\ Len(segs) >= 4 =>
                 /\ m.res.status = 0
                 /\ m.res.user = segs[2]
                 /\ m.res.repo = (IF raw THEN segs[3] ELSE "")
                 /\ m.res.matcher = (IF raw THEN "raw" ELSE "gist")

C10_Witness ==
    /\ m.rawPath = "https://gist/o/r/x"
    /\ m.res = [outcome |-> "return", user |-> "o", repo |-> "", matcher |-> "gist",
                status |-> 0]

\* C19 as stated: for rawPath = https://github.com/<owner>/<repo>, exactly two
\* segments and no third, Matcher returns without error, owner and repo set
\* and the kind left empty.
C19_TwoSegmentsSucceed ==
    (m.res.outcome # "none" /\ HasPrefix(m.rawPath, "https://github.com/")) =>
        LET segs == SegsAfter("https://github.com/")
        IN  Len(segs) = 2 =>
              m.res = [outcome |-> "return", user |-> segs[1], repo |-> segs[2],
                       matcher |-> "", status |-> 0]

\* C19, amended: for rawPath = https://github.com/<owner>/<repo>, exactly two
\* segments and no third, Matcher returns status 400 with owner, repo and kind
\* empty; no return of Matcher has a nil error and an empty kind.
C19_TwoSegmentsRejected ==
    /\ (m.res.outcome # "none" /\ HasPrefix(m.rawPath, "https://github.com/")) =>
          (Len(SegsAfter("https://github.com/")) = 2 =>
             /\ Returned /\ m.res.status = 400
             /\ m.res.user = "" /\ m.res.repo = "" /\ m.res.matcher = "")
    /\ (Returned /\ m.res.status = 0) => m.res.matcher # ""

C19_Witness ==
    /\ m.rawPath = "https://github.com/blob/o"
    /\ Returned /\ m.res.status = 400 /\ m.res.user = ""

----------------------------------------------------------------------------
(* Claims about the cleanup and the scheduling of processLinks *)

\* the place of each cleanup call in the order the deferred functions run
Rank(e) ==
    CASE e = "gzclose" -> 1 [] e = "trailer" -> 2 [] e = "flush" -> 3
      [] e = "gzrclose" -> 4 [] e = "inclose" -> 5 [] e = "pipeclose" -> 6

InLog(e) == \E i \in 1..Len(task.log) : task.log[i] = e

\* the task got past gzip.NewReader, so the writers of lines 265-268 exist
WritersCreated == ~(IsGzip /\ ~GzipHeaderOK(job.raw))

\* the cleanup calls come in their order, each at most once; when the task has
\* ended the writers (if created) were closed and flushed, the input was
\* closed once and the write end of the pipe after it, as the last call; once
\* the write end is closed no Write is in progress
CleanupInOrder ==
    /\ \A i, j \in 1..Len(task.log) : i < j => Rank(task.log[i]) < Rank(task.log[j])
    /\ input.closes <= 1
    /\ input.closes = 1 <=> InLog("inclose")
    /\ pipe.werr # Nil <=> InLog("pipeclose")
    /\ pipe.werr # Nil => task.pc = "done" /\ pipe.data = "" /\ ~task.inflight
    /\ task.pc = "done" =>
          /\ InLog("inclose") /\ InLog("pipeclose")
          /\ task.log[Len(task.log)] = "pipeclose"
          /\ WritersCreated => InLog("flush") /\ (IsGzip <=> InLog("gzclose"))
          /\ ~WritersCreated => task.log = <<"inclose", "pipeclose">>

\* C14 as stated: on every exit path the cleanup runs in the order writers,
\* input, pipe, and in gzip mode the gzip trailer is written to the pipe before
\* the write end is closed.
C14_TrailerOnEveryExit ==
    /\ CleanupInOrder
    /\ (task.pc = "done" /\ IsGzip) => InLog("trailer")

\* C14, amended: on every exit path the cleanup runs in the order writers
\* (when created), input (exactly once), pipe write end (exactly once, last),
\* and nothing is written to the pipe after that close; in gzip mode the
\* trailer is written to the pipe, before that close, whenever the gzip writer
\* was created and no write to the pipe failed. After a bad gzip header or a
\* failed write no trailer is written.
C14_CleanupOrder ==
    /\ CleanupInOrder
    /\ (task.pc = "done" /\ IsGzip /\ WritersCreated /\ ~pipe.rclosed) => InLog("trailer")
    /\ (task.pc = "done" /\ ~WritersCreated) => ~InLog("trailer")

C14_Witness ==
    /\ task.pc = "done" /\ IsGzip /\ job.inEnd = "err" /\ task.recorded = ErrRead
    /\ task.log = <<"gzclose", "trailer", "flush", "gzrclose", "inclose", "pipeclose">>

\* C15: a failure of input.Close() or of gzipReader.Close() never changes
\* what the consumer observes: with no processing error recorded it sees a
\* clean end of stream after all output, with one recorded it sees that error.
C15_CloseFailureChangesNothing ==
    (cons.term # Nil /\ (input.closeFailed \/ input.gzrFailed)) =>
        cons.term = (IF task.recorded = Nil THEN EOF ELSE task.recorded)

\* C16: after the task is started the caller writes no variable the task
\* reads or writes and reads none the task writes: its return leaves err and
\* written as they are and returns the count 0 it started with.
C16_CallerSharesNothing ==
    [][(caller.pc = "spawned" /\ caller'.pc = "returned") =>
          /\ shared' = shared
          /\ caller'.written = 0]_vars

\* the consumer has stopped reading while a Write of the task is blocked with
\* bytes nobody has read
Abandoned == cons.stopped /\ task.inflight /\ pipe.data # ""

\* C17: once the consumer has stopped reading, without closing, while the
\* task has a byte to deliver, the task stays blocked in that pipe write for
\* ever: it takes no step, the input is not closed and the write end of the
\* pipe is not closed, and no step of anyone ends this.
C17_AbandonedTaskStaysBlocked ==
    /\ [](Abandoned => /\ task.pc = "pw" /\ input.closes = 0 /\ pipe.werr = Nil
                       /\ ~ENABLED TaskStep)
    /\ [][Abandoned => /\ Abandoned'
                       /\ task' = task /\ pipe' = pipe /\ input' = input]_vars
    /\ [][cons.stopped => cons' = cons /\ pipe'.rclosed = pipe.rclosed]_vars

C17_Witness == Abandoned /\ cons.out # "" /\ Len(task.wq) > 1

\* C18: for every finite input and a consumer that reads until it gets a
\* terminal condition, under fair scheduling the task eventually ends with
\* the input closed and the write end of the pipe closed, and the consumer
\* eventually gets end of stream or the error the pipe was closed with.
C18_TaskAndConsumerFinish ==
    <>[](/\ task.pc = "done" /\ input.closes = 1 /\ pipe.werr # Nil
         /\ cons.term = pipe.werr /\ caller.pc = "returned")

C18_Witness ==
    /\ task.pc = "done" /\ input.closes = 1 /\ cons.term = ErrRead /\ cons.out # ""

\* C20: in gzip mode, on every exit path, what bufWriter holds has been
\* handed to gzipWriter before gzipWriter is closed: when the compressor is
\* closed, a bufWriter that has not failed is empty.
C20_BufferEmptyWhenCompressorClosed ==
    (IsGzip /\ gz.closed /\ bw.err = Nil) => bw.buf = ""

====
